---- MODULE Spec2Model ----
(***************************************************************************)
(* VideoGenerationAgent.stream (samples/python/agents/                     *)
(* veo_video_gen_google_adk/agent.py) as a state machine.                  *)
(*                                                                         *)
(* stream() is an async generator: calling it only creates the generator   *)
(* object; its body runs when the consumer pulls (__anext__), up to the    *)
(* next yield.  Between two yields the body may await backend calls        *)
(* (generate_videos, asyncio.sleep, operations.get); each await is a step  *)
(* of its own.  Strings that are built, split or compared by the code      *)
(* (blob names, URIs, mime types) are sequences of tokens.                 *)
(***************************************************************************)
EXTENDS Integers, Sequences, FiniteSets, TLC

VARIABLES
    active,                            \* the tasks for which stream() was invoked
    session_id,                        \* stream(prompt, session_id): the A2A task id
    ctl,                               \* generator: "suspended" | "running" | "finished"
    pc,                                \* position in the generator body
    pulls,                             \* number of __anext__ calls by the consumer
    veo_operation,                     \* local veo_operation
    veo_operation_name_for_reporting,  \* local, "N/A" until a name is seen
    operation_kicked_off,              \* local flag
    start_time,                        \* local, time.monotonic() at line 178
    loc,                               \* locals of the finalization branch
    events,                            \* the dicts yielded so far, in order
    log,                               \* calls, results and exceptions, in order
    clock,                             \* time.monotonic(), in seconds
    tempfiles,                         \* paths existing in the temp directory
    bucket,                            \* blob names stored in the GCS bucket
    environ,                           \* os.environ as main() reads it
    main_pc,                           \* position in main() of main.py
    exit_status                        \* <<status>> once main() has exited, else <<>>

agent_vars == <<active, session_id, ctl, pc, pulls, veo_operation,
                veo_operation_name_for_reporting, operation_kicked_off, start_time,
                loc, events, log, clock, tempfiles, bucket>>

main_vars == <<environ, main_pc, exit_status>>

vars == <<agent_vars, main_vars>>

(***************************************************************************)
(* Bounds of the model.                                                    *)
(***************************************************************************)
MaxPolls == 2          \* polls issued per task
MaxPairPolls == 1      \* polls issued per task when two tasks run side by side
Oversleep == 60        \* seconds a sleep may last beyond the polling interval
MaxElapsed == 130      \* elapsed seconds for which the estimate is tabulated

(***************************************************************************)
(* Program constants.                                                      *)
(***************************************************************************)
VEO_POLLING_INTERVAL_SECONDS == 5
VEO_SIMULATED_TOTAL_GENERATION_TIME_SECONDS == 120

Tasks == {1, 2}
gcs_bucket_name == <<"bkt">>
DefaultMime == <<"video", "/", "mp4">>

\* session ids handed to stream(): two path-safe ones and one that is not
\* (it contains the text "gs://bkt/").
SessionIds == {<<"t1">>, <<"t2">>, <<"gs://", "bkt", "/", "t1">>}
Uuids == {"u1", "u2"}

\* the task id is path-safe: no separator, no URI scheme, no dot
PathSafe(s) == \A i \in 1..Len(s) : s[i] \notin {"/", "gs://", "."}

(***************************************************************************)
(* String functions the code uses, on token sequences.                     *)
(***************************************************************************)
Last(s) == s[Len(s)]

\* s.split('/')[-1]
RECURSIVE LastSegment(_)
LastSegment(s) ==
    IF s = <<>> THEN <<>>
    ELSE IF Last(s) = "/" THEN <<>>
    ELSE Append(LastSegment(SubSeq(s, 1, Len(s) - 1)), Last(s))

HasSlash(s) == \E i \in 1..Len(s) : s[i] = "/"

IsPrefix(p, s) == Len(p) <= Len(s) /\ SubSeq(s, 1, Len(p)) = p

\* s.replace(old, "") : every non-overlapping occurrence, left to right
RECURSIVE RemoveAll(_, _)
RemoveAll(s, old) ==
    IF s = <<>> THEN <<>>
    ELSE IF IsPrefix(old, s) THEN RemoveAll(SubSeq(s, Len(old) + 1, Len(s)), old)
    ELSE <<s[1]>> \o RemoveAll(SubSeq(s, 2, Len(s)), old)

GcsUri(bucket_name, blob_name) == <<"gs://">> \o bucket_name \o <<"/">> \o blob_name

(***************************************************************************)
(* Values the backend can hand back.  An attribute the code probes with    *)
(* hasattr can be "absent"; done is read for truthiness.                   *)
(***************************************************************************)
Names == {"absent", "empty", "op1"}

Resp(shape, videos, mime, rai, reasons) ==
    [shape |-> shape, videos |-> videos, mime |-> mime, rai |-> rai, reasons |-> reasons]

NoResp == Resp("none", "empty", <<>>, "absent", "absent")

Responses ==
    {NoResp, Resp("malformed", "empty", <<>>, "absent", "absent")}
    \cup {Resp("ok", "empty", <<>>, r, "absent") : r \in {"absent", "none", "zero", "pos"}}
    \cup {Resp("ok", "empty", <<>>, "pos", "list")}
    \cup {Resp("ok", "novideo", <<>>, "absent", "absent")}
    \cup {Resp("ok", "nobytes", <<>>, r, "list") : r \in {"zero", "pos"}}
    \cup {Resp("ok", "bytes", m, "zero", "absent") :
              m \in {<<>>, <<"video", "/", "webm">>, <<"webm">>}}
    \cup {Resp("ok", "bytes", <<>>, "pos", "list")}

Op(name, done, error, resp) ==
    [name |-> name, done |-> done, error |-> error, resp |-> resp]

NoOp == Op("absent", "absent", "none", NoResp)

OpValues ==
    {Op(n, d, "none", NoResp) : n \in Names, d \in {"absent", "false"}}
    \cup {Op(n, "true", e, r) : n \in Names, e \in {"structured", "unstructured"},
                                r \in {NoResp, Resp("ok", "bytes", <<>>, "zero", "absent")}}
    \cup {Op(n, "true", "none", r) : n \in Names, r \in Responses}

\* the values drawn when two tasks run side by side
PairOpValues ==
    {Op("op1", "false", "none", NoResp),
     Op("op1", "true", "structured", NoResp),
     Op("op1", "true", "none", Resp("ok", "bytes", <<>>, "zero", "absent")),
     Op("op1", "true", "none", Resp("ok", "bytes", <<"video", "/", "webm">>, "zero",
                                    "absent"))}

(***************************************************************************)
(* The dicts stream() yields.  keys is the set of keys of the dict; msg    *)
(* stands for the wording of updates / final_message_text and detail for   *)
(* the text interpolated into it.                                          *)
(***************************************************************************)
Event(keys, complete, percent, msg, detail, uri, mime, artifact) ==
    [keys |-> keys, is_task_complete |-> complete, progress_percent |-> percent,
     msg |-> msg, detail |-> detail, uri |-> uri, mimeType |-> mime,
     artifact_name |-> artifact]

WorkingKeys == {"is_task_complete", "updates", "progress_percent"}
FailedKeysWithoutContent == {"is_task_complete", "is_error", "final_message_text",
                             "progress_percent"}

FailedKeys == {"is_task_complete", "content", "is_error", "final_message_text",
               "progress_percent"}
CompletedKeys == {"is_task_complete", "file_part_data", "artifact_name",
                  "artifact_description", "final_message_text", "progress_percent"}

WorkingEvent(msg, detail, percent) ==
    Event(WorkingKeys, FALSE, percent, msg, detail, <<>>, <<>>, <<>>)

FailedEvent(msg, detail) ==
    Event(FailedKeys, TRUE, 100, msg, detail, <<>>, <<>>, <<>>)

\* line 230: the dict yielded when a poll returns an unexpected value
BadPollKeys == {"is_task_complete", "content", "final_message_text", "progress_percent"}

BadPollEvent(detail) ==
    Event(BadPollKeys, TRUE, 100, "polling_api_issue", detail, <<>>, <<>>, <<>>)

\* line 308: the wording of the completion message
CompletionMsg(signed_gcs_url, gcs_uri_after_upload) ==
    IF signed_gcs_url = gcs_uri_after_upload THEN "stored_unsigned" ELSE "signed_link"

CompletedEvent(signed_gcs_url, gcs_uri_after_upload, mime_type) ==
    Event(CompletedKeys, TRUE, 100,
          CompletionMsg(signed_gcs_url, gcs_uri_after_upload), "ok",
          signed_gcs_url, mime_type, LastSegment(gcs_uri_after_upload))

\* lines 357-367: the dict yielded by the except clause; e is str(e)
ExceptionEventNoFlag(e) ==
    Event(FailedKeys \ {"is_error"}, TRUE, 100, "unexpected_error", e, <<>>, <<>>, <<>>)

ExceptionEvent(e) == FailedEvent("unexpected_error", e)

(***************************************************************************)
(* Decisions of the code.                                                  *)
(***************************************************************************)
\* lines 233-235
EstimateNoFloor(elapsed_time) ==
    LET simulated_progress ==
            (elapsed_time * 100) \div VEO_SIMULATED_TOTAL_GENERATION_TIME_SECONDS
    IN  IF simulated_progress < 99 THEN simulated_progress ELSE 99

EstimateNoCap(elapsed_time) ==
    LET p == (elapsed_time * 100) \div VEO_SIMULATED_TOTAL_GENERATION_TIME_SECONDS
    IN  IF p > 5 THEN p ELSE 5

Estimate(elapsed_time) ==
    LET simulated_progress ==
            LET p == (elapsed_time * 100) \div VEO_SIMULATED_TOTAL_GENERATION_TIME_SECONDS
            IN  IF p < 99 THEN p ELSE 99
    IN  IF simulated_progress > 5 THEN simulated_progress ELSE 5

\* line 192: hasattr(veo_operation, 'name') and veo_operation.name
ReportingName(op, previous) ==
    IF op.name \notin {"absent", "empty"} THEN op.name ELSE previous

\* line 207
HasDoneAlways(op) == TRUE

HasDone(op) == op.done # "absent"

\* line 212: if veo_operation.done: break
IsDoneNever(op) == FALSE

IsDoneAlways(op) == TRUE

IsDone(op) == op.done = "true"

\* line 222: hasattr(polled_data, 'done') and hasattr(polled_data, 'name')
WellFormedPoll(polled_data) == polled_data.done # "absent" /\ polled_data.name # "absent"

\* line 244: if veo_operation.error
HasErrorNever(op) == FALSE

HasError(op) == op.error # "none"

\* line 245: getattr(error, 'message', str(error))
ErrorText(op) == IF op.error = "structured" THEN "error.message" ELSE "str(error)"

\* line 259: veo_operation.response and veo_operation.response.generated_videos
HasVideos(op) == op.resp.shape = "ok" /\ op.resp.videos # "empty"

\* line 271: video_obj.video_bytes
HasBytesUnchecked(op) == TRUE

HasBytes(op) == op.resp.videos = "bytes"

\* line 335: hasattr(response, 'rai_media_filtered_count') and count > 0
\* (evaluated only when the count is present and a number)
Filtered(op) == op.resp.shape = "ok" /\ op.resp.rai = "pos"

\* line 336: getattr(response, 'rai_media_filtered_reasons', [...])
Reasons(op) == IF op.resp.reasons = "list" THEN "joined_reasons" ELSE "Unknown safety filter."

\* lines 265-267
MimeType(op) == IF op.resp.mime # <<>> THEN op.resp.mime ELSE DefaultMime

\* line 285
Extension(mime_type) == IF HasSlash(mime_type) THEN LastSegment(mime_type) ELSE <<"mp4">>

\* lines 284-287
BlobNameWithoutTask(sid, uuid4, mime_type) ==
    <<"veo_video_", uuid4, ".">> \o Extension(mime_type)

BlobName(sid, uuid4, mime_type) ==
    sid \o <<"/">> \o <<"veo_video_">> \o sid \o <<"_", uuid4, ".">> \o Extension(mime_type)

\* line 126: os.path.join(temp_dir, blob_name.split('/')[-1])
TempFilePathFixed(blob_name) == <<"tmp", "/", "veo_video.tmp">>

TempFilePath(blob_name) == <<"tmp", "/">> \o LastSegment(blob_name)

\* line 297
BlobNameForSigningWholeUri(gcs_uri_after_upload) == gcs_uri_after_upload

BlobNameForSigning(gcs_uri_after_upload) ==
    RemoveAll(gcs_uri_after_upload, GcsUri(gcs_bucket_name, <<>>))

\* line 147-154: the URL generate_signed_url returns
SignedUrl(bucket_name, blob_name) ==
    <<"https://">> \o bucket_name \o <<"/">> \o blob_name \o <<"?sig">>

\* lines 155-159
SignFallbackNoBucket(bucket_name, blob_name) == <<"gs://">> \o blob_name

SignFallback(bucket_name, blob_name) == GcsUri(bucket_name, blob_name)

(***************************************************************************)
(* Lines 242-287 and 335-355, from the break out of the polling loop to    *)
(* the upload call or to the yield that ends the task without an upload.   *)
(* kind "raise": an exception reaches the except clause of line 357;       *)
(* kind "yield": ev is yielded; kind "upload": the upload is called.       *)
(***************************************************************************)
Outcome(kind, ev, tag) == [kind |-> kind, ev |-> ev, tag |-> tag]

InspectOutcome(op) ==
    IF op.name = "absent"                                    \* line 242
        THEN Outcome("raise", ExceptionEvent("AttributeError:name"), "raise:name")
    ELSE IF HasError(op)                                     \* lines 244-255
        THEN Outcome("yield", FailedEvent("backend_error", ErrorText(op)), "error")
    ELSE IF op.resp.shape = "malformed"                      \* line 259
        THEN Outcome("raise", ExceptionEvent("AttributeError:generated_videos"),
                     "raise:inspect")
    ELSE IF HasVideos(op)
        THEN IF op.resp.videos = "novideo"                   \* line 267
                 THEN Outcome("raise", ExceptionEvent("AttributeError:mime_type"),
                              "raise:inspect")
             ELSE IF ~HasBytes(op)                           \* lines 271-280
                 THEN Outcome("yield", FailedEvent("missing_bytes", "no video_bytes"),
                              "no_bytes")
             ELSE Outcome("upload", NoOp, "upload")          \* lines 283-288
    ELSE IF op.resp.shape = "ok" /\ op.resp.rai = "none"     \* line 335: None > 0
        THEN Outcome("raise", ExceptionEvent("TypeError:rai_media_filtered_count"),
                     "raise:inspect")
    ELSE IF Filtered(op)                                     \* lines 335-345
        THEN Outcome("yield", FailedEvent("safety_blocked", Reasons(op)), "rejected")
    ELSE Outcome("yield", FailedEvent("no_video", "none"), "empty")  \* lines 346-355

(***************************************************************************)
(* The state after stream() was invoked for the tasks of A.                *)
(***************************************************************************)
NoLoc == [mime_type |-> <<>>, uuid4 |-> "none", gcs_blob_name |-> <<>>,
          gcs_uri_after_upload |-> <<>>]

InitFor(A) ==
    /\ active = A
    /\ session_id \in {f \in [Tasks -> SessionIds] : \A t \in Tasks \ A : f[t] = <<"t1">>}
    /\ ctl = [t \in Tasks |-> "suspended"]
    /\ pc = [t \in Tasks |-> "created"]
    /\ pulls = [t \in Tasks |-> 0]
    /\ veo_operation = [t \in Tasks |-> NoOp]
    /\ veo_operation_name_for_reporting = [t \in Tasks |-> "N/A"]
    /\ operation_kicked_off = [t \in Tasks |-> FALSE]
    /\ start_time = [t \in Tasks |-> 0]
    /\ loc = [t \in Tasks |-> NoLoc]
    /\ events = [t \in Tasks |-> <<>>]
    /\ log = [t \in Tasks |-> <<>>]
    /\ clock = 0
    /\ tempfiles = {}
    /\ bucket = {}

\* a configuration main() accepts: an API key, no Vertex AI
DefaultEnviron ==
    [GOOGLE_GENAI_USE_VERTEXAI |-> "unset", GOOGLE_API_KEY |-> "key",
     VERTEX_AI_PROJECT_ID |-> "unset", VERTEX_AI_LOCATION |-> "unset"]

\* the agent is driven directly; main() is not part of the run
MainIdle ==
    /\ environ = DefaultEnviron
    /\ main_pc = "idle"
    /\ exit_status = <<>>

Init == InitFor({1}) /\ MainIdle

\* the polls a task of the model may issue
PollLimit == IF Cardinality(active) > 1 THEN MaxPairPolls ELSE MaxPolls

\* a sleep that returns at once
SleepSkipped == {0}

\* how long asyncio.sleep(VEO_POLLING_INTERVAL_SECONDS) may take
SleepDurations ==
    IF Cardinality(active) > 1 THEN {VEO_POLLING_INTERVAL_SECONDS}
    ELSE {VEO_POLLING_INTERVAL_SECONDS, VEO_POLLING_INTERVAL_SECONDS + Oversleep}

\* what generate_videos and operations.get may return
BackendValues == IF Cardinality(active) > 1 THEN PairOpValues ELSE OpValues

Count(t, what) == Cardinality({i \in DOMAIN log[t] : log[t][i] = what})

DoneTag(op) ==
    CASE op.done = "true" -> "op:true"
      [] op.done = "false" -> "op:false"
      [] OTHER -> "op:absent"

\* which of the two probed attributes a rejected poll result lacks (line 222)
BadPollTag(polled_data) ==
    CASE polled_data.done = "absent" /\ polled_data.name = "absent" -> "bad_poll:both"
      [] polled_data.done = "absent" -> "bad_poll:done"
      [] OTHER -> "bad_poll:name"

\* line 231: return after the yield of line 230
AfterBadPollNoReturn == "loop"

AfterBadPoll == "end"

\* a generator that suspends after a poll without handing out the update
YieldWithoutProgress(t, ev, next) ==
    /\ events' = [events EXCEPT ![t] = IF ev.msg = "progress" THEN @ ELSE Append(@, ev)]
    /\ ctl' = [ctl EXCEPT ![t] = "suspended"]
    /\ pc' = [pc EXCEPT ![t] = next]

\* one stream of events shared by the tasks of the agent
YieldShared(t, ev, next) ==
    /\ events' = [u \in Tasks |-> IF u \in active THEN Append(events[u], ev) ELSE events[u]]
    /\ ctl' = [ctl EXCEPT ![t] = "suspended"]
    /\ pc' = [pc EXCEPT ![t] = next]

\* the generator yields ev and is suspended before the code at next
Yield(t, ev, next) ==
    /\ events' = [events EXCEPT ![t] = Append(@, ev)]
    /\ ctl' = [ctl EXCEPT ![t] = "suspended"]
    /\ pc' = [pc EXCEPT ![t] = next]

Goto(t, next) ==
    /\ pc' = [pc EXCEPT ![t] = next]
    /\ UNCHANGED <<events, ctl>>

Logged(t, entries) == log' = [log EXCEPT ![t] = @ \o entries]

\* the body runs only while the consumer awaits __anext__ (async generator)
RunningEager(t, at) == t \in active /\ ctl[t] # "finished" /\ pc[t] = at

Running(t, at) == t \in active /\ ctl[t] = "running" /\ pc[t] = at

(***************************************************************************)
(* The consumer: async for ... / __anext__ on the generator.               *)
(***************************************************************************)
Pull(t) ==
    /\ t \in active
    /\ ctl[t] = "suspended"
    /\ ctl' = [ctl EXCEPT ![t] = "running"]
    /\ pulls' = [pulls EXCEPT ![t] = @ + 1]
    /\ UNCHANGED <<active, session_id, pc, veo_operation,
                   veo_operation_name_for_reporting, operation_kicked_off,
                   start_time, loc, events, log, clock, tempfiles, bucket>>
    /\ UNCHANGED main_vars

(***************************************************************************)
(* The generator body.                                                     *)
(***************************************************************************)
\* lines 167-176
Begin(t) ==
    /\ Running(t, "created")
    /\ Yield(t, WorkingEvent("received", "prompt", 0), "kickoff")
    /\ UNCHANGED <<active, session_id, pulls, veo_operation,
                   veo_operation_name_for_reporting, operation_kicked_off,
                   start_time, loc, log, clock, tempfiles, bucket>>
    /\ UNCHANGED main_vars

\* lines 178-191: generate_videos is called in a thread and awaited
CallStart(t) ==
    /\ Running(t, "kickoff")
    /\ start_time' = [start_time EXCEPT ![t] = clock]
    /\ operation_kicked_off' = [operation_kicked_off EXCEPT ![t] = FALSE]
    /\ veo_operation_name_for_reporting' =
           [veo_operation_name_for_reporting EXCEPT ![t] = "N/A"]
    /\ Logged(t, <<"start">>)
    /\ Goto(t, "await_start")
    /\ UNCHANGED <<active, session_id, pulls, veo_operation, loc, clock,
                   tempfiles, bucket>>
    /\ UNCHANGED main_vars

\* lines 183-204, and 357-367 when generate_videos raises
StartReturns(t) ==
    /\ Running(t, "await_start")
    /\ \/ /\ Logged(t, <<"raise:start">>)
          /\ Yield(t, ExceptionEvent("start_failed"), "end")
          /\ UNCHANGED <<veo_operation, veo_operation_name_for_reporting,
                         operation_kicked_off>>
       \/ \E result \in BackendValues :
          /\ veo_operation' = [veo_operation EXCEPT ![t] = result]
          /\ veo_operation_name_for_reporting' =
                 [veo_operation_name_for_reporting EXCEPT
                     ![t] = ReportingName(result, @)]
          /\ operation_kicked_off' = [operation_kicked_off EXCEPT ![t] = TRUE]
          /\ Logged(t, <<DoneTag(result)>>)
          /\ Yield(t, WorkingEvent("started", ReportingName(result, "N/A"), 5), "loop")
    /\ UNCHANGED <<active, session_id, pulls, start_time, loc, clock, tempfiles, bucket>>
    /\ UNCHANGED main_vars

\* lines 206-215: the head of the polling loop, up to the sleep
LoopCheck(t) ==
    /\ Running(t, "loop")
    /\ IF ~HasDone(veo_operation[t])
       THEN /\ Logged(t, <<"raise:no_done">>)
            /\ Yield(t, ExceptionEvent("TypeError:no_done"), "end")
       ELSE IF IsDone(veo_operation[t])
       THEN /\ Goto(t, "inspect")
            /\ UNCHANGED log
       ELSE /\ Count(t, "poll") < PollLimit
            /\ Logged(t, <<"sleep">>)
            /\ Goto(t, "sleeping")
    /\ UNCHANGED <<active, session_id, pulls, veo_operation,
                   veo_operation_name_for_reporting, operation_kicked_off,
                   start_time, loc, clock, tempfiles, bucket>>
    /\ UNCHANGED main_vars

\* lines 215-220: the sleep ends, operations.get is called in a thread
SleepReturns(t) ==
    /\ Running(t, "sleeping")
    /\ \E slept \in SleepDurations : clock' = clock + slept
    /\ Logged(t, <<"poll">>)
    /\ Goto(t, "await_poll")
    /\ UNCHANGED <<active, session_id, pulls, veo_operation,
                   veo_operation_name_for_reporting, operation_kicked_off,
                   start_time, loc, tempfiles, bucket>>
    /\ UNCHANGED main_vars

\* lines 217-240, and 357-367 when operations.get raises
PollReturns(t) ==
    /\ Running(t, "await_poll")
    /\ \/ /\ Logged(t, <<"raise:poll">>)
          /\ Yield(t, ExceptionEvent("poll_failed"), "end")
          /\ UNCHANGED <<veo_operation, veo_operation_name_for_reporting>>
       \/ \E polled_data \in BackendValues :
          IF WellFormedPoll(polled_data)
          THEN /\ veo_operation' = [veo_operation EXCEPT ![t] = polled_data]
               /\ veo_operation_name_for_reporting' =
                      [veo_operation_name_for_reporting EXCEPT
                          ![t] = ReportingName(polled_data, @)]
               /\ Logged(t, <<DoneTag(polled_data)>>)
               /\ Yield(t, WorkingEvent("progress",
                               ReportingName(polled_data,
                                             veo_operation_name_for_reporting[t]),
                               Estimate(clock - start_time[t])),
                        "loop")
          ELSE /\ Logged(t, <<DoneTag(polled_data), BadPollTag(polled_data)>>)
               /\ Yield(t, BadPollEvent(veo_operation_name_for_reporting[t]),
                        AfterBadPoll)
               /\ UNCHANGED <<veo_operation, veo_operation_name_for_reporting>>
    /\ UNCHANGED <<active, session_id, pulls, operation_kicked_off, start_time, loc,
                   clock, tempfiles, bucket>>
    /\ UNCHANGED main_vars

\* lines 242-287 and 335-355: after the break, up to the upload call
Inspect(t) ==
    /\ Running(t, "inspect")
    /\ LET out == InspectOutcome(veo_operation[t]) IN
       IF out.kind = "upload"
       THEN \E uuid4 \in Uuids :
            LET mime_type == MimeType(veo_operation[t]) IN
            /\ loc' = [loc EXCEPT ![t] =
                          [mime_type |-> mime_type,
                           uuid4 |-> uuid4,
                           gcs_blob_name |-> BlobName(session_id[t], uuid4, mime_type),
                           gcs_uri_after_upload |-> <<>>]]
            /\ Logged(t, <<"upload">>)
            /\ Goto(t, "upload")
       ELSE /\ Logged(t, <<out.tag>>)
            /\ Yield(t, out.ev, "end")
            /\ UNCHANGED loc
    /\ UNCHANGED <<active, session_id, pulls, veo_operation,
                   veo_operation_name_for_reporting, operation_kicked_off,
                   start_time, clock, tempfiles, bucket>>
    /\ UNCHANGED main_vars

\* lines 129-130: the temporary file is written
AfterWrite(files, temp_file_path) == files \cup {temp_file_path}

\* lines 133-135: finally, the temporary file is removed
AfterCleanupSkipped(files, temp_file_path) == files

AfterCleanup(files, temp_file_path) == files \ {temp_file_path}

\* line 71: set by __init__, which raises when it cannot build the client,
\* and assigned nowhere else
storage_client == TRUE

\* an upload that is called again when it fails
UploadRetried(t) ==
    /\ Running(t, "upload")
    /\ LET blob_name == loc[t].gcs_blob_name
           temp_file_path == TempFilePath(blob_name)
       IN  \E result \in {"uploaded", "write_failed", "upload_failed"} :
           /\ tempfiles' = AfterCleanup(AfterWrite(tempfiles, temp_file_path),
                                        temp_file_path)
           /\ IF result = "uploaded"
              THEN /\ bucket' = bucket \cup {blob_name}
                   /\ loc' = [loc EXCEPT ![t].gcs_uri_after_upload =
                                 GcsUri(gcs_bucket_name, blob_name)]
                   /\ Logged(t, <<"uploaded">>)
                   /\ Goto(t, "sign")
              ELSE /\ Count(t, "upload") < 2
                   /\ Logged(t, <<"raise:upload", "upload">>)
                   /\ Goto(t, "upload")
                   /\ UNCHANGED <<bucket, loc>>
    /\ UNCHANGED <<active, session_id, pulls, veo_operation,
                   veo_operation_name_for_reporting, operation_kicked_off,
                   start_time, clock>>
    /\ UNCHANGED main_vars

\* lines 118-139 (called at 288-293), and 357-367 when it raises.
\* _upload_bytes_to_gcs has no await: it runs in one piece.
Upload(t) ==
    /\ Running(t, "upload")
    /\ IF ~storage_client
       THEN /\ Logged(t, <<"raise:upload">>)                 \* lines 119-120
            /\ Yield(t, ExceptionEvent("RuntimeError:storage_client"), "end")
            /\ UNCHANGED <<tempfiles, bucket, loc>>
       ELSE
       LET blob_name == loc[t].gcs_blob_name
           temp_file_path == TempFilePath(blob_name)
       IN  \E result \in {"uploaded", "write_failed", "upload_failed"} :
           /\ tempfiles' = AfterCleanup(AfterWrite(tempfiles, temp_file_path),
                                        temp_file_path)
           /\ IF result = "uploaded"
              THEN /\ bucket' = bucket \cup {blob_name}
                   /\ loc' = [loc EXCEPT ![t].gcs_uri_after_upload =
                                 GcsUri(gcs_bucket_name, blob_name)]
                   /\ Logged(t, <<"uploaded">>)
                   /\ Goto(t, "sign")
              ELSE /\ Logged(t, <<"raise:upload">>)
                   /\ Yield(t, ExceptionEvent(result), "end")
                   /\ UNCHANGED <<bucket, loc>>
    /\ UNCHANGED <<active, session_id, pulls, veo_operation,
                   veo_operation_name_for_reporting, operation_kicked_off,
                   start_time, clock>>
    /\ UNCHANGED main_vars

\* lines 141-159: what _generate_signed_url returns
GenerateSignedUrl(blob_name, bucket_name, signing_ok) ==
    IF signing_ok THEN SignedUrl(bucket_name, blob_name)
    ELSE SignFallback(bucket_name, blob_name)

\* lines 295-333: sign the uploaded blob and yield the final event
Sign(t) ==
    /\ Running(t, "sign")
    /\ LET gcs_uri_after_upload == loc[t].gcs_uri_after_upload IN
       IF gcs_uri_after_upload # <<>>
       THEN \E signing_ok \in BOOLEAN :
            LET signed_gcs_url ==
                    GenerateSignedUrl(BlobNameForSigning(gcs_uri_after_upload),
                                      gcs_bucket_name, signing_ok)
            IN  /\ Logged(t, <<"sign", IF signing_ok THEN "signed" ELSE "raise:sign">>)
                /\ Yield(t, CompletedEvent(signed_gcs_url, gcs_uri_after_upload,
                                           loc[t].mime_type), "end")
       ELSE /\ Logged(t, <<"no_uri">>)
            /\ Yield(t, FailedEvent("no_uri", "none"), "end")
    /\ UNCHANGED <<active, session_id, pulls, veo_operation,
                   veo_operation_name_for_reporting, operation_kicked_off,
                   start_time, loc, clock, tempfiles, bucket>>
    /\ UNCHANGED main_vars

\* the return of line 231 or 255, or the end of the body: StopAsyncIteration
Finish(t) ==
    /\ Running(t, "end")
    /\ ctl' = [ctl EXCEPT ![t] = "finished"]
    /\ UNCHANGED <<active, session_id, pc, pulls, veo_operation,
                   veo_operation_name_for_reporting, operation_kicked_off,
                   start_time, loc, events, log, clock, tempfiles, bucket>>
    /\ UNCHANGED main_vars

Next ==
    \/ \E t \in Tasks : Pull(t)
    \/ \E t \in Tasks : Begin(t)
    \/ \E t \in Tasks : CallStart(t)
    \/ \E t \in Tasks : StartReturns(t)
    \/ \E t \in Tasks : LoopCheck(t)
    \/ \E t \in Tasks : SleepReturns(t)
    \/ \E t \in Tasks : PollReturns(t)
    \/ \E t \in Tasks : Inspect(t)
    \/ \E t \in Tasks : Upload(t)
    \/ \E t \in Tasks : Sign(t)
    \/ \E t \in Tasks : Finish(t)

Spec == Init /\ [][Next]_vars

\* The event loop runs a resumed generator and completes the calls it
\* awaits; nothing obliges the consumer to pull.
Body(t) ==
    \/ Begin(t) \/ CallStart(t) \/ StartReturns(t) \/ LoopCheck(t)
    \/ SleepReturns(t) \/ PollReturns(t) \/ Inspect(t) \/ Upload(t)
    \/ Sign(t) \/ Finish(t)

FairSpec == Spec /\ \A t \in Tasks : WF_vars(Body(t))

\* The consumer keeps pulling (async for), the event loop runs the resumed
\* generator, and every awaited call returns or raises.
LiveSpec == Spec /\ \A t \in Tasks : WF_vars(Pull(t)) /\ WF_vars(Body(t))

\* two tasks on one agent, their steps interleaved
PairInit ==
    /\ InitFor({1, 2}) /\ session_id[1] = <<"t1">> /\ PathSafe(session_id[2])
    /\ MainIdle

PairSpec == PairInit /\ [][Next]_vars

(***************************************************************************)
(* Vocabulary of the properties.                                           *)
(***************************************************************************)
Finished(t) == ctl[t] = "finished"

Terminals(t) == {i \in DOMAIN events[t] : events[t][i].is_task_complete}

LastEvent(t) == events[t][Len(events[t])]

\* a Failed terminal event: is_task_complete and is_error are both true
IsFailed(ev) == ev.is_task_complete /\ "is_error" \in ev.keys

\* a Completed terminal event: it carries file_part_data and no is_error
IsCompleted(ev) ==
    ev.is_task_complete /\ "file_part_data" \in ev.keys /\ "is_error" \notin ev.keys

InLog(t, what) == \E i \in DOMAIN log[t] : log[t][i] = what

\* the operation the task holds has been inspected (lines 242-355 have run)
Inspected(t) == IsDone(veo_operation[t]) /\ pc[t] \in {"upload", "sign", "end"}

\* C1: once the generator is exhausted, its events hold exactly one event with
\* is_task_complete true, and that event is the last one; before that, a
\* terminal event is never followed by another event.
C1_OneTerminalLast ==
    \A t \in active :
        /\ Cardinality(Terminals(t)) <= 1
        /\ \A i \in Terminals(t) : i = Len(events[t])
        /\ Finished(t) => Cardinality(Terminals(t)) = 1

C1_Witness ==
    \E t \in active :
        /\ Finished(t)
        /\ Len(events[t]) >= 4
        /\ Count(t, "poll") = 2
        /\ IsCompleted(LastEvent(t))

\* C2: progress_percent never decreases from one non-terminal event to a
\* later one, the first two are 0 and 5, every later one lies in 5..99, and
\* every terminal event has progress_percent 100.
C2_ProgressMonotone ==
    \A t \in active :
        /\ \A i, j \in DOMAIN events[t] :
              (i < j /\ ~events[t][i].is_task_complete /\ ~events[t][j].is_task_complete)
                  => events[t][i].progress_percent <= events[t][j].progress_percent
        /\ \A i \in DOMAIN events[t] :
              IF events[t][i].is_task_complete THEN events[t][i].progress_percent = 100
              ELSE IF i = 1 THEN events[t][i].progress_percent = 0
              ELSE IF i = 2 THEN events[t][i].progress_percent = 5
              ELSE events[t][i].progress_percent \in 5..99

C2_Witness ==
    \E t \in active :
        /\ Len(events[t]) = 5
        /\ events[t][3].progress_percent = 5
        /\ events[t][4].progress_percent = 58
        /\ events[t][5].progress_percent = 100

\* the entries of the log of t after position i
After(t, i) == {j \in DOMAIN log[t] : j > i}

BackendCalls == {"start", "sleep", "poll", "upload", "sign"}

\* C3: when a poll returns a value that has neither done nor name, the last
\* event is a terminal event with is_error true, and no poll, upload or sign
\* is made afterwards.
C3_BadPollIsError ==
    \A t \in active :
        \A i \in DOMAIN log[t] :
            log[t][i] = "bad_poll:both" =>
                /\ IsFailed(LastEvent(t))
                /\ \A j \in After(t, i) : log[t][j] \notin BackendCalls

\* The part of C3 the code keeps: a rejected poll result ends the event
\* sequence with a terminal event, and no backend call follows it.
C3_BadPollStops ==
    \A t \in active :
        \A i \in DOMAIN log[t] :
            log[t][i] \in {"bad_poll:both", "bad_poll:done", "bad_poll:name"} =>
                /\ LastEvent(t).is_task_complete
                /\ LastEvent(t).msg = "polling_api_issue"
                /\ \A j \in After(t, i) : log[t][j] \notin BackendCalls

\* C4: when the operation found done carries an error, the terminal event is
\* Failed with the backend's error text, and neither upload nor sign is
\* called, whatever payload the operation carries.
C4_ErrorIsFailedNoFinalize ==
    \A t \in active :
        (Inspected(t) /\ HasError(veo_operation[t])) =>
            /\ IsFailed(LastEvent(t))
            /\ LastEvent(t).msg = "backend_error"
            /\ LastEvent(t).detail = ErrorText(veo_operation[t])
            /\ ~InLog(t, "upload")
            /\ ~InLog(t, "sign")

\* The part of C4 the code keeps: a Failed terminal event, no upload, no sign.
C4_ErrorNeverFinalizes ==
    \A t \in active :
        (Inspected(t) /\ HasError(veo_operation[t])) =>
            /\ IsFailed(LastEvent(t))
            /\ ~InLog(t, "upload")
            /\ ~InLog(t, "sign")

\* C5: for a path-safe task id, when the upload succeeded and the sign call
\* failed, the terminal event is Completed, is not an error, and its uri is
\* gs://{bucket}/{blob name} of the blob that was stored.
C5_SignFailureDegrades ==
    \A t \in active :
        (PathSafe(session_id[t]) /\ InLog(t, "raise:sign")) =>
            /\ InLog(t, "uploaded")
            /\ IsCompleted(LastEvent(t))
            /\ ~IsFailed(LastEvent(t))
            /\ loc[t].gcs_blob_name \in bucket
            /\ LastEvent(t).uri = <<"gs://">> \o gcs_bucket_name \o <<"/">>
                                      \o loc[t].gcs_blob_name
            /\ \A i \in DOMAIN events[t] : ~IsFailed(events[t][i])

C5_Witness ==
    \E t \in active :
        /\ PathSafe(session_id[t])
        /\ InLog(t, "raise:sign")
        /\ Finished(t)
        /\ LastEvent(t).msg = "stored_unsigned"

\* C6 as stated: once stream() has been invoked the backend start call is
\* made even if the consumer never pulls: in every behaviour of an invoked
\* task, eventually the consumer has pulled or the start call has been made.
C6_WorkBeginsOnInvocation ==
    \A t \in Tasks : <>(t \notin active \/ pulls[t] > 0 \/ InLog(t, "start"))

\* C6 as the code has it: invoking stream() runs nothing.  The first pull
\* yields the Working event at 0 without any backend call; the start call is
\* made only after a second pull, and the events never outnumber the pulls.
C6_WorkBeginsOnPull ==
    \A t \in active :
        /\ pulls[t] = 0 => (pc[t] = "created" /\ events[t] = <<>>)
        /\ log[t] # <<>> => pulls[t] >= 2
        /\ Len(events[t]) <= pulls[t]
        /\ ctl[t] = "suspended" => Len(events[t]) = pulls[t]

C6_Witness ==
    \E t \in active : pulls[t] = 2 /\ log[t] = <<"start">> /\ Len(events[t]) = 1

RaiseTags == {"raise:start", "raise:no_done", "raise:poll", "raise:name",
              "raise:inspect", "raise:upload", "raise:sign"}

Raised(t, tags) == \E i \in DOMAIN log[t] : log[t][i] \in tags

\* C7 as stated: an exception raised anywhere, the sign call included, gives
\* exactly one terminal event, a Failed one; an exhausted generator has
\* yielded a terminal event, and never two.
C7_AnyExceptionFails ==
    \A t \in active :
        /\ Raised(t, RaiseTags) =>
              (Terminals(t) = {Len(events[t])} /\ IsFailed(LastEvent(t)))
        /\ Finished(t) => Terminals(t) # {}
        /\ Cardinality(Terminals(t)) <= 1

\* C7 as the code has it: an exception raised by the start call, the done
\* check, the poll, the inspection of the result or the upload gives exactly
\* one terminal event, the last one, which is the Failed event of the except
\* clause; an exception of the sign call is absorbed and the task completes.
\* An exhausted generator has yielded a terminal event, and never two.
C7_EscapingExceptionFails ==
    \A t \in active :
        /\ Raised(t, RaiseTags \ {"raise:sign"}) =>
              /\ Terminals(t) = {Len(events[t])}
              /\ IsFailed(LastEvent(t))
              /\ LastEvent(t).msg = "unexpected_error"
              /\ Last(log[t]) \in RaiseTags
        /\ Raised(t, {"raise:sign"}) => IsCompleted(LastEvent(t))
        /\ Finished(t) => Terminals(t) # {}
        /\ Cardinality(Terminals(t)) <= 1

C7_Witness ==
    \E t \in active :
        /\ Finished(t)
        /\ InLog(t, "raise:upload")
        /\ Count(t, "poll") = 1

\* the payload of an operation is non-empty
HasPayload(op) == op.resp.shape = "ok" /\ op.resp.videos = "bytes"

\* C8: upload and sign are each called at most once per task, upload only
\* when the operation held is done, has no error and has a non-empty payload,
\* and sign only after that upload returned.
C8_FinalizeOnceWhenDue ==
    \A t \in active :
        /\ Count(t, "upload") <= 1
        /\ Count(t, "sign") <= 1
        /\ InLog(t, "upload") =>
              /\ veo_operation[t].done = "true"
              /\ veo_operation[t].error = "none"
              /\ HasPayload(veo_operation[t])
        /\ InLog(t, "sign") => InLog(t, "uploaded")
        /\ InLog(t, "uploaded") => InLog(t, "upload")

C8_Witness ==
    \E t \in active :
        /\ Finished(t)
        /\ Count(t, "upload") = 1
        /\ Count(t, "sign") = 1
        /\ Count(t, "poll") = 2

\* the done flag of the value obtained last before position j of the log
ObtainedBefore(t, j) ==
    LET ops == {i \in 1..(j - 1) : log[t][i] \in {"op:true", "op:false", "op:absent"}}
    IN  IF ops = {} THEN "none"
        ELSE log[t][CHOOSE i \in ops : \A k \in ops : k <= i]

\* C9: a poll is issued only when the value obtained last has done false, and
\* no poll follows a value obtained with done true.
C9_PollOnlyWhileNotDone ==
    \A t \in active :
        \A j \in DOMAIN log[t] :
            log[t][j] \in {"sleep", "poll"} =>
                /\ ObtainedBefore(t, j) = "op:false"
                /\ \A i \in 1..(j - 1) : log[t][i] # "op:true"

C9_Witness ==
    \E t \in active :
        /\ Finished(t)
        /\ Count(t, "poll") = 2
        /\ Count(t, "op:false") = 2
        /\ Count(t, "op:true") = 1

\* C10: a Completed event is yielded only for an operation that is done, has
\* no error and a non-empty payload, after the upload returned; and once a
\* done operation without payload has been inspected the last event is
\* Failed.
C10_EmptyIsNeverSuccess ==
    \A t \in active :
        /\ \A i \in DOMAIN events[t] :
              IsCompleted(events[t][i]) =>
                  /\ veo_operation[t].done = "true"
                  /\ veo_operation[t].error = "none"
                  /\ HasPayload(veo_operation[t])
                  /\ InLog(t, "uploaded")
        /\ (Inspected(t) /\ ~HasPayload(veo_operation[t])) =>
              /\ IsFailed(LastEvent(t))
              /\ ~InLog(t, "upload")

C10_Witness ==
    \E t \in active :
        /\ Finished(t)
        /\ veo_operation[t].error = "none"
        /\ veo_operation[t].resp = Resp("ok", "empty", <<>>, "zero", "absent")
        /\ LastEvent(t).msg = "no_video"

\* the result of a done operation reports filtered media
Rejected(op) == op.resp.shape = "ok" /\ op.resp.rai = "pos"

\* C11: once a done operation with no error and no non-empty payload has
\* been inspected, if its result counts filtered media then the last event
\* is Failed and its message is the joined filter reasons; this covers a
\* result listing a video entry whose bytes are empty.  (Stated for
\* operations that have a name attribute: without one the inspection is
\* not reached, see C17.)
C11_RejectionGivesReasons ==
    \A t \in active :
        (/\ Inspected(t)
         /\ veo_operation[t].name # "absent"
         /\ ~HasError(veo_operation[t])
         /\ ~HasPayload(veo_operation[t])
         /\ Rejected(veo_operation[t])) =>
            /\ IsFailed(LastEvent(t))
            /\ LastEvent(t).msg = "safety_blocked"
            /\ LastEvent(t).detail = Reasons(veo_operation[t])

\* The part of C11 the code keeps: with an identifier present and no video
\* entry listed, filtered media give the Failed event with the reasons.
C11_RejectionWithoutEntry ==
    \A t \in active :
        (/\ Inspected(t)
         /\ veo_operation[t].name # "absent"
         /\ ~HasError(veo_operation[t])
         /\ veo_operation[t].resp.videos = "empty"
         /\ Rejected(veo_operation[t])) =>
            /\ IsFailed(LastEvent(t))
            /\ LastEvent(t).msg = "safety_blocked"
            /\ LastEvent(t).detail = Reasons(veo_operation[t])

\* C12: when the upload raises (no storage client, the temporary file cannot
\* be written, or upload_from_filename fails) the last event is Failed, sign
\* is never called, upload was called once, and no backend call follows.
C12_UploadFailureIsFatal ==
    \A t \in active :
        \A i \in DOMAIN log[t] :
            log[t][i] = "raise:upload" =>
                /\ IsFailed(LastEvent(t))
                /\ LastEvent(t).msg = "unexpected_error"
                /\ Terminals(t) = {Len(events[t])}
                /\ ~InLog(t, "sign")
                /\ ~InLog(t, "uploaded")
                /\ Count(t, "upload") = 1
                /\ After(t, i) = {}

C12_Witness ==
    \E t \in active :
        /\ Finished(t)
        /\ InLog(t, "raise:upload")
        /\ LastEvent(t).detail = "upload_failed"
        /\ Count(t, "poll") = 2

\* C13: the temporary file of an upload does not exist once
\* _upload_bytes_to_gcs has returned or raised: not after a successful
\* upload, not after a failed write or a failed upload call, and so not when
\* the sign call is made.
C13_TempFileRemoved ==
    \A t \in active :
        (InLog(t, "uploaded") \/ InLog(t, "raise:upload")) =>
            /\ TempFilePath(loc[t].gcs_blob_name) \notin tempfiles
            /\ tempfiles = {}

C13_Witness ==
    \E t \in active :
        /\ InLog(t, "raise:upload")
        /\ LastEvent(t).detail = "write_failed"
        /\ loc[t].gcs_blob_name # <<>>
        /\ TempFilePath(loc[t].gcs_blob_name) \notin tempfiles

\* the task has derived its blob path (lines 284-287 have run)
Derived(t) == loc[t].gcs_blob_name # <<>>

\* C14: two tasks with distinct path-safe task ids never derive the same
\* blob path, whatever their random parts, equal ones included; two tasks
\* with the same task id derive distinct paths when their random parts
\* differ.
C14_BlobPathsDistinct ==
    \A t1, t2 \in active :
        (t1 # t2 /\ Derived(t1) /\ Derived(t2)) =>
            /\ (/\ session_id[t1] # session_id[t2]
                /\ PathSafe(session_id[t1])
                /\ PathSafe(session_id[t2]))
                   => loc[t1].gcs_blob_name # loc[t2].gcs_blob_name
            /\ (session_id[t1] = session_id[t2] /\ loc[t1].uuid4 # loc[t2].uuid4)
                   => loc[t1].gcs_blob_name # loc[t2].gcs_blob_name

C14_Witness ==
    /\ active = {1, 2}
    /\ session_id[1] # session_id[2]
    /\ loc[1].uuid4 = loc[2].uuid4
    /\ loc[1].mime_type = loc[2].mime_type
    /\ InLog(1, "uploaded") /\ InLog(2, "uploaded")
    /\ Cardinality(bucket) = 2

\* s ends with the tokens of e
IsSuffix(e, s) == Len(e) <= Len(s) /\ SubSeq(s, Len(s) - Len(e) + 1, Len(s)) = e

\* C15: for a path-safe task id the blob path stored is
\* {session_id}/{name}.{ext}: it begins with the task id and '/', contains no
\* other '/', and ends with '.' and the subtype of the mime type ('mp4' when
\* the mime type is missing or has no subtype); the blob is stored under that
\* path, and the URL of the final event is the one the sign call gives for
\* that same path.
C15_BlobPathForm ==
    \A t \in active :
        (PathSafe(session_id[t]) /\ Derived(t)) =>
            LET path == loc[t].gcs_blob_name
                mime == veo_operation[t].resp.mime
                ext  == IF mime = <<>> THEN <<"mp4">>
                        ELSE IF HasSlash(mime) THEN <<mime[Len(mime)]>>
                        ELSE <<"mp4">>
            IN  /\ IsPrefix(session_id[t] \o <<"/">>, path)
                /\ IsSuffix(<<".">> \o ext, path)
                /\ Cardinality({i \in DOMAIN path : path[i] = "/"}) = 1
                /\ InLog(t, "uploaded") => path \in bucket
                /\ InLog(t, "sign") =>
                      LastEvent(t).uri \in
                          {<<"https://">> \o gcs_bucket_name \o <<"/">> \o path \o <<"?sig">>,
                           <<"gs://">> \o gcs_bucket_name \o <<"/">> \o path}

C15_Witness ==
    \E t \in active :
        /\ session_id[t] = <<"t1">>
        /\ veo_operation[t].resp.mime = <<"video", "/", "webm">>
        /\ InLog(t, "signed")
        /\ IsSuffix(<<".", "webm">>, loc[t].gcs_blob_name)
        /\ Finished(t)

\* log entries that record an error outcome of the task
ErrorTags == {"raise:start", "raise:no_done", "raise:poll", "raise:name",
              "raise:inspect", "raise:upload", "bad_poll:both", "bad_poll:done",
              "bad_poll:name", "error", "no_bytes", "rejected", "empty", "no_uri"}

\* C16: the start call is the first backend call of a task and is made once;
\* only sleep and poll are repeated; upload and sign are made at most once;
\* after an error outcome no backend call is made.
C16_StartOnceErrorsTerminal ==
    \A t \in active :
        /\ log[t] # <<>> => (log[t][1] = "start" /\ Count(t, "start") = 1)
        /\ Count(t, "upload") <= 1
        /\ Count(t, "sign") <= 1
        /\ Count(t, "sleep") - Count(t, "poll") \in {0, 1}
        /\ \A i \in DOMAIN log[t] :
              log[t][i] \in ErrorTags =>
                  /\ \A j \in After(t, i) : log[t][j] \notin BackendCalls
                  /\ LastEvent(t).is_task_complete

C16_Witness ==
    \E t \in active :
        /\ Finished(t)
        /\ Count(t, "poll") = 2
        /\ InLog(t, "rejected")
        /\ pulls[t] = 6

\* the operation returned by start had no identifier: the second event names
\* the operation "N/A"
StartedWithoutName(t) ==
    /\ Len(events[t]) >= 2
    /\ events[t][2].msg = "started"
    /\ events[t][2].detail = "N/A"

\* the outcome of inspecting op if it had an identifier
OutcomeWithName(op) == InspectOutcome([op EXCEPT !.name = "op1"])

\* C17: when the operation returned by start has no identifier, absent or
\* empty, the task goes on, and once its operation has been inspected the
\* outcome is the one the same operation would have with an identifier.
C17_MissingNameIsCosmetic ==
    \A t \in active :
        (StartedWithoutName(t) /\ Inspected(t)) =>
            InLog(t, OutcomeWithName(veo_operation[t]).tag)

\* The part of C17 the code keeps: an empty name, or an absent one on an
\* operation that is not done yet, changes nothing but the "N/A" of the
\* messages.
C17_EmptyNameIsCosmetic ==
    \A t \in active :
        (StartedWithoutName(t) /\ Inspected(t) /\ veo_operation[t].name # "absent") =>
            InLog(t, OutcomeWithName(veo_operation[t]).tag)

\* C18: while the generator is suspended at a yield, a step that is not a
\* pull of its consumer changes nothing of the task: no backend call, no
\* event, no progress in the body.  Polls never outnumber the pulls that
\* follow the first two.
C18_NothingRunsWithoutPull ==
    [][\A t \in Tasks :
          /\ ctl[t] = "suspended" =>
                (log'[t] = log[t] /\ events'[t] = events[t] /\ pc'[t] = pc[t])
          /\ ctl[t] = "finished" => (log'[t] = log[t] /\ events'[t] = events[t])
          /\ Count(t, "poll") = 0 \/ Count(t, "poll") + 2 <= pulls[t]]_vars

C18_Witness ==
    \E t \in active :
        /\ ctl[t] = "suspended"
        /\ Count(t, "poll") = 1
        /\ LastEvent(t).msg = "progress"
        /\ ~IsDone(veo_operation[t])

\* C19: every terminal event carries final_message_text; a Completed one
\* carries file_part_data with a uri and a mimeType, artifact_name and
\* artifact_description; every other terminal event carries content.
C19_TerminalEventShape ==
    \A t \in active :
        \A i \in DOMAIN events[t] :
            LET ev == events[t][i] IN
            ev.is_task_complete =>
                /\ "final_message_text" \in ev.keys
                /\ "progress_percent" \in ev.keys
                /\ IF IsCompleted(ev)
                   THEN /\ {"file_part_data", "artifact_name", "artifact_description"}
                               \subseteq ev.keys
                        /\ ev.uri # <<>>
                        /\ ev.mimeType # <<>>
                        /\ ev.artifact_name # <<>>
                   ELSE /\ "content" \in ev.keys
                        /\ "file_part_data" \notin ev.keys
                        /\ ev.detail # ""

C19_Witness ==
    \E t \in active :
        /\ Finished(t)
        /\ LastEvent(t).msg = "polling_api_issue"
        /\ "content" \in LastEvent(t).keys
        /\ "is_error" \notin LastEvent(t).keys

\* so far the backend has answered every call with a well-formed operation
\* whose done is false
NeverDoneSoFar(t) ==
    /\ InLog(t, "op:false")
    /\ \A i \in DOMAIN log[t] :
          log[t][i] \notin {"op:true", "op:absent", "raise:start", "raise:poll",
                            "bad_poll:both", "bad_poll:done", "bad_poll:name"}

\* C20: as long as every operation obtained is well-formed with done false
\* the task has yielded Working events only, one per operation obtained
\* after the first, has no terminal event, is not finished, and is in the
\* polling loop, where the next step of the body is another sleep and poll:
\* nothing but the bound of the model stops the polling.
C20_NoTimeout ==
    \A t \in active :
        NeverDoneSoFar(t) =>
            /\ Terminals(t) = {}
            /\ ~Finished(t)
            /\ \A i \in DOMAIN events[t] : events[t][i].keys = WorkingKeys
            /\ Len(events[t]) = 1 + Count(t, "op:false")
            /\ pc[t] \in {"loop", "sleeping", "await_poll"}
            /\ \A i \in DOMAIN log[t] : log[t][i] \in {"start", "op:false", "sleep", "poll"}
            /\ (Running(t, "loop") /\ Count(t, "poll") < PollLimit)
                   => ENABLED (LoopCheck(t) /\ pc'[t] = "sleeping")

C20_Witness ==
    \E t \in active :
        /\ NeverDoneSoFar(t)
        /\ Count(t, "poll") = MaxPolls
        /\ Count(t, "op:false") = MaxPolls + 1
        /\ Len(events[t]) = MaxPolls + 2
        /\ LastEvent(t).progress_percent = 99

OpTags == {"op:true", "op:false", "op:absent"}

BadPollTags == {"bad_poll:both", "bad_poll:done", "bad_poll:name"}

\* the polls of t that returned a well-formed operation (line 222 true)
WellFormedPolls(t) ==
    {i \in DOMAIN log[t] :
        /\ log[t][i] = "poll"
        /\ i + 1 <= Len(log[t])
        /\ log[t][i + 1] \in OpTags
        /\ (i + 2 <= Len(log[t]) => log[t][i + 2] \notin BadPollTags)}

WorkingEvents(t) == {i \in DOMAIN events[t] : ~events[t][i].is_task_complete}

ProgressEvents(t) == {i \in DOMAIN events[t] : events[t][i].msg = "progress"}

\* the start call has returned an operation
StartReturned(t) == Len(log[t]) >= 2 /\ log[t][2] \in OpTags

\* C21: at every moment the Working events that report progress are as many
\* as the polls that returned a well-formed operation, done or not, so each
\* such poll has its one Working event before the next poll or the terminal
\* event; they follow the events "received" and "started", and once the
\* start call has returned the Working events number 2 plus the well-formed
\* polls, in a run that ends Completed in particular.
C21_OneWorkingPerPoll ==
    \A t \in active :
        /\ Cardinality(ProgressEvents(t)) = Cardinality(WellFormedPolls(t))
        /\ \A i \in ProgressEvents(t) : i >= 3 /\ events[t][i].keys = WorkingKeys
        /\ \A i \in WorkingEvents(t) : i >= 3 => i \in ProgressEvents(t)
        /\ \A i \in WellFormedPolls(t) :
              Cardinality({j \in WellFormedPolls(t) : j <= i})
                  <= Cardinality(ProgressEvents(t))
        /\ (StartReturned(t) /\ ctl[t] # "running") =>
              Cardinality(WorkingEvents(t)) = 2 + Cardinality(WellFormedPolls(t))
        /\ (Finished(t) /\ IsCompleted(LastEvent(t))) =>
              /\ Cardinality(WorkingEvents(t)) = 2 + Cardinality(WellFormedPolls(t))
              /\ Len(events[t]) = 3 + Cardinality(WellFormedPolls(t))

C21_Witness ==
    \E t \in active :
        /\ Finished(t)
        /\ IsCompleted(LastEvent(t))
        /\ Cardinality(WellFormedPolls(t)) = 2
        /\ Cardinality(WorkingEvents(t)) = 4
        /\ log[t][4] = "poll" /\ log[t][5] = "op:false"
        /\ log[t][7] = "poll" /\ log[t][8] = "op:true"

\* p is max(5, min(floor(elapsed / total * 100), 99)), said without division
IsClaimedEstimate(p, elapsed, total) ==
    IF elapsed * 100 < 6 * total THEN p = 5
    ELSE IF elapsed * 100 >= 99 * total THEN p = 99
    ELSE p * total <= elapsed * 100 /\ elapsed * 100 < (p + 1) * total

\* C22: for every elapsed time the estimate of lines 233-235 is
\* max(5, min(floor(elapsed/total*100), 99)) and lies in 5..99; the Working
\* event yielded after a poll carries the estimate for the time elapsed
\* since start_time; no event with is_task_complete false has
\* progress_percent 100, and every event with is_task_complete true has it.
C22_EstimateRange ==
    /\ \A elapsed \in 0..MaxElapsed :
          /\ Estimate(elapsed) \in 5..99
          /\ IsClaimedEstimate(Estimate(elapsed), elapsed,
                               VEO_SIMULATED_TOTAL_GENERATION_TIME_SECONDS)
    /\ \A t \in active :
          /\ \A i \in DOMAIN events[t] :
                (events[t][i].progress_percent = 100) <=> events[t][i].is_task_complete
          /\ \A i \in ProgressEvents(t) : events[t][i].progress_percent \in 5..99
          /\ (pc[t] = "loop" /\ ProgressEvents(t) # {}) =>
                /\ clock - start_time[t] >= 0
                /\ IsClaimedEstimate(LastEvent(t).progress_percent, clock - start_time[t],
                                     VEO_SIMULATED_TOTAL_GENERATION_TIME_SECONDS)

C22_Witness ==
    \E t \in active :
        /\ Finished(t)
        /\ Len(events[t]) = 5
        /\ clock - start_time[t] = 130
        /\ events[t][3].progress_percent = 54
        /\ events[t][4].progress_percent = 99
        /\ events[t][5].progress_percent = 100

\* the entries of the log of t that are what
At(t, what) == {i \in DOMAIN log[t] : log[t][i] = what}

\* what a call may be followed by in the log: its own return or exception
ReturnsOf(call) ==
    CASE call = "start" -> OpTags \cup {"raise:start"}
      [] call = "sleep" -> {"poll"}
      [] call = "poll" -> OpTags \cup {"raise:poll"}
      [] call = "upload" -> {"uploaded", "raise:upload"}
      [] call = "sign" -> {"signed", "raise:sign"}

\* C23: within one task the calls are made one after the other: the event
\* at percent 0 is yielded before the start call, the start call is the
\* first call and is made once, every poll comes right after a sleep of at
\* least the polling interval, every poll precedes the upload, the upload
\* precedes the sign call, a Completed event is yielded only after the sign
\* call returned, and a call is followed by its own return before any other
\* call is made.
C23_CallsSequential ==
    \A t \in active :
        /\ log[t] # <<>> =>
              /\ events[t] # <<>>
              /\ events[t][1].progress_percent = 0
              /\ log[t][1] = "start"
              /\ At(t, "start") = {1}
        /\ \A i \in At(t, "poll") : i > 1 /\ log[t][i - 1] = "sleep"
        /\ clock - start_time[t] >= VEO_POLLING_INTERVAL_SECONDS * Count(t, "poll")
        /\ \A i \in At(t, "upload") : \A j \in At(t, "poll") \cup At(t, "sleep") : j < i
        /\ \A i \in At(t, "sign") : \A j \in At(t, "upload") \cup At(t, "uploaded") : j < i
        /\ InLog(t, "sign") => InLog(t, "uploaded")
        /\ \A i \in DOMAIN events[t] :
              IsCompleted(events[t][i]) =>
                  /\ InLog(t, "sign")
                  /\ Last(log[t]) \in ReturnsOf("sign")
        /\ \A i \in DOMAIN log[t] :
              (log[t][i] \in BackendCalls /\ i < Len(log[t])) =>
                  log[t][i + 1] \in ReturnsOf(log[t][i])
        /\ (log[t] # <<>> /\ Last(log[t]) \in {"start", "sleep", "poll"}) =>
              /\ ctl[t] = "running"
              /\ pc[t] = (CASE Last(log[t]) = "start" -> "await_start"
                            [] Last(log[t]) = "sleep" -> "sleeping"
                            [] Last(log[t]) = "poll" -> "await_poll")

C23_Witness ==
    \E t \in active :
        /\ Finished(t)
        /\ IsCompleted(LastEvent(t))
        /\ log[t] = <<"start", "op:false", "sleep", "poll", "op:false", "sleep", "poll",
                      "op:true", "upload", "uploaded", "sign", "signed">>

\* what belongs to the control flow of task t: its generator, its locals,
\* the events it yielded and the calls it made
Local(t) ==
    <<ctl[t], pc[t], pulls[t], veo_operation[t], veo_operation_name_for_reporting[t],
      operation_kicked_off[t], start_time[t], loc[t], events[t], log[t]>>

\* the terminal event of t as its own operation, task id and random part give it
OwnTerminal(t) ==
    LET op == veo_operation[t]
        last == Last(log[t])
        uri == GcsUri(gcs_bucket_name,
                      BlobName(session_id[t], loc[t].uuid4, MimeType(op)))
    IN  IF last \in {"signed", "raise:sign"}
            THEN CompletedEvent(GenerateSignedUrl(BlobNameForSigning(uri),
                                                  gcs_bucket_name, last = "signed"),
                                uri, MimeType(op))
        ELSE IF last \in {"error", "no_bytes", "rejected", "empty", "raise:name",
                          "raise:inspect"}
            THEN InspectOutcome(op).ev
        ELSE IF last \in BadPollTags
            THEN BadPollEvent(veo_operation_name_for_reporting[t])
        ELSE ExceptionEvent(LastEvent(t).detail)

\* C24 (state part): with two tasks running side by side, the terminal event
\* of each is the one its own operation, task id and random part determine,
\* the blob it uploaded is stored, and it has yielded one event for each
\* pull of its own consumer.
C24_OwnOutcome ==
    \A t \in active :
        /\ Finished(t) => LastEvent(t) = OwnTerminal(t)
        /\ InLog(t, "uploaded") => loc[t].gcs_blob_name \in bucket
        /\ ctl[t] = "suspended" => Len(events[t]) = pulls[t]

\* C24 (step part): a step changes the generator, the locals, the events and
\* the calls of at most one task.
C24_OneTaskPerStep ==
    \A t, u \in Tasks : (t # u /\ Local(t)' # Local(t)) => Local(u)' = Local(u)

\* C24: two tasks running concurrently on one agent, their steps interleaved
\* in any order, do not affect each other: no step of one changes the
\* operation, the locals or the events of the other, and each task's events
\* and terminal outcome are those its own backend responses determine.
C24_TasksIsolated == []C24_OwnOutcome /\ [][C24_OneTaskPerStep]_vars

C24_Witness ==
    /\ active = {1, 2}
    /\ Finished(1) /\ Finished(2)
    /\ start_time[1] = 0 /\ start_time[2] = 0
    /\ Count(1, "poll") = 1 /\ Count(2, "poll") = 1
    /\ IsCompleted(LastEvent(1))
    /\ LastEvent(2).msg = "backend_error"
    /\ veo_operation[1] # veo_operation[2]

\* the backend has returned an operation with done true, or a step has failed
DoneOrFailed(t) ==
    \/ InLog(t, "op:true")
    \/ Raised(t, RaiseTags \ {"raise:sign"})
    \/ Raised(t, BadPollTags)

\* C25: when the consumer keeps pulling and every call returns, a task whose
\* backend has returned an operation with done true, or one of whose steps
\* has failed, eventually has yielded its single terminal event and its
\* generator is exhausted.
C25_EventuallyTerminal ==
    \A t \in Tasks :
        (t \in active /\ DoneOrFailed(t))
            ~> (Finished(t) /\ LastEvent(t).is_task_complete)

C25_Witness ==
    \E t \in active :
        /\ Finished(t)
        /\ Count(t, "poll") = 2
        /\ log[t][8] = "op:true"
        /\ LastEvent(t).is_task_complete
        /\ LastEvent(t).msg = "safety_blocked"

\* the operation returned by the start call was already done
StartedDone(t) == Len(log[t]) >= 2 /\ log[t][2] = "op:true"

\* C26: when the operation returned by start is already done the task makes
\* no sleep and no poll, and once it has ended its events are exactly the
\* Working event at 0, the Working event at 5 and one terminal event, the
\* one the inspection of the operation's error and result gives.
C26_DoneAtStartInspected ==
    \A t \in active :
        StartedDone(t) =>
            /\ ~InLog(t, "sleep")
            /\ ~InLog(t, "poll")
            /\ Finished(t) =>
                  /\ Len(events[t]) = 3
                  /\ events[t][1].keys = WorkingKeys /\ events[t][1].progress_percent = 0
                  /\ events[t][2].keys = WorkingKeys /\ events[t][2].progress_percent = 5
                  /\ events[t][3].is_task_complete
                  /\ InLog(t, OutcomeWithName(veo_operation[t]).tag)

\* The part of C26 the code keeps: no sleep, no poll, and exactly the two
\* Working events at 0 and 5 followed by one terminal event, which is the
\* one lines 242-367 give for the operation (the failure of line 242 for an
\* operation without a name attribute included).
C26_DoneAtStartSkipsPolling ==
    \A t \in active :
        StartedDone(t) =>
            /\ ~InLog(t, "sleep")
            /\ ~InLog(t, "poll")
            /\ Finished(t) =>
                  /\ Len(events[t]) = 3
                  /\ events[t][1].keys = WorkingKeys /\ events[t][1].progress_percent = 0
                  /\ events[t][2].keys = WorkingKeys /\ events[t][2].progress_percent = 5
                  /\ events[t][3].is_task_complete
                  /\ InLog(t, InspectOutcome(veo_operation[t]).tag)

C26_Witness ==
    \E t \in active :
        /\ StartedDone(t)
        /\ Finished(t)
        /\ IsCompleted(LastEvent(t))
        /\ log[t] = <<"start", "op:true", "upload", "uploaded", "sign", "signed">>

\* the start call returned an operation without a done attribute
StartedWithoutDone(t) == Len(log[t]) >= 2 /\ log[t][2] = "op:absent"

\* C27: when the start call raises, or returns an operation without a done
\* attribute, the task makes no sleep, no poll, no upload and no sign call,
\* and ends with the Failed event of the except clause, is_error true; when
\* the start call raises the events are exactly the Working event at 0 and
\* that Failed event, and when done is missing the Working event at 5 comes
\* between them.
C27_StartFailureIsFatal ==
    \A t \in active :
        /\ (InLog(t, "raise:start") \/ StartedWithoutDone(t)) =>
              /\ \A i \in DOMAIN log[t] : log[t][i] \notin {"sleep", "poll", "upload", "sign"}
              /\ Finished(t) =>
                    /\ IsFailed(LastEvent(t))
                    /\ LastEvent(t).msg = "unexpected_error"
                    /\ LastEvent(t).progress_percent = 100
        /\ InLog(t, "raise:start") =>
              /\ log[t] = <<"start", "raise:start">>
              /\ events[t] = <<WorkingEvent("received", "prompt", 0),
                               ExceptionEvent("start_failed")>>
              /\ IsFailed(LastEvent(t))
        /\ InLog(t, "raise:no_done") =>
              /\ StartedWithoutDone(t)
              /\ Len(events[t]) = 3
              /\ events[t][2].progress_percent = 5
              /\ IsFailed(LastEvent(t))
        /\ (StartedWithoutDone(t) /\ Finished(t)) => InLog(t, "raise:no_done")

C27_Witness ==
    \E t \in active :
        /\ Finished(t)
        /\ log[t] = <<"start", "op:absent", "raise:no_done">>
        /\ Len(events[t]) = 3
        /\ IsFailed(LastEvent(t))

\* s holds the token x
Holds(s, x) == \E i \in 1..Len(s) : s[i] = x

\* C28: the temporary file path of an upload is the temp directory joined
\* with the last segment of the blob name and holds the random part, so two
\* finalizations whose random parts differ, or whose path-safe task ids
\* differ, have different temporary paths; no temporary file outlives the
\* upload that wrote it, so the cleanup of one upload finds no file of
\* another to remove.
C28_TempPathsDistinct ==
    /\ \A t \in active :
          Derived(t) =>
              /\ TempFilePath(loc[t].gcs_blob_name)
                     = <<"tmp", "/">> \o LastSegment(loc[t].gcs_blob_name)
              /\ Holds(TempFilePath(loc[t].gcs_blob_name), loc[t].uuid4)
    /\ \A t1, t2 \in active :
          (/\ t1 # t2 /\ Derived(t1) /\ Derived(t2)
           /\ \/ loc[t1].uuid4 # loc[t2].uuid4
              \/ /\ session_id[t1] # session_id[t2]
                 /\ PathSafe(session_id[t1])
                 /\ PathSafe(session_id[t2]))
              => TempFilePath(loc[t1].gcs_blob_name)
                     # TempFilePath(loc[t2].gcs_blob_name)
    /\ tempfiles = {}

C28_Witness ==
    /\ active = {1, 2}
    /\ session_id[1] = session_id[2]
    /\ loc[1].uuid4 # loc[2].uuid4
    /\ loc[1].mime_type = loc[2].mime_type
    /\ InLog(1, "uploaded") /\ InLog(2, "raise:upload")
    /\ TempFilePath(loc[1].gcs_blob_name) # TempFilePath(loc[2].gcs_blob_name)
    /\ tempfiles = {}

(***************************************************************************)
(* main() of main.py: the configuration checks, the agent card and the     *)
(* start of the server.  A variable of the environment is "unset", empty   *)
(* or set.                                                                 *)
(***************************************************************************)
Environs ==
    [GOOGLE_GENAI_USE_VERTEXAI : {"unset", "FALSE", "true", "TRUE"},
     GOOGLE_API_KEY : {"unset", "", "key"},
     VERTEX_AI_PROJECT_ID : {"unset", "", "proj"},
     VERTEX_AI_LOCATION : {"unset", "", "loc"}]

\* os.getenv(name, default)
Getenv(value, default) == IF value = "unset" THEN default ELSE value

\* str.upper
Upper(s) == IF s = "true" THEN "TRUE" ELSE s

\* truth value of os.getenv(name): None and '' are false
Truthy(value) == value \notin {"unset", ""}

\* main.py line 37
UseVertex(env) == Upper(Getenv(env.GOOGLE_GENAI_USE_VERTEXAI, "FALSE")) = "TRUE"

\* main.py lines 38-41: a ConfigError is raised
ConfigErrorRaised(env) ==
    \/ ~UseVertex(env) /\ ~Truthy(env.GOOGLE_API_KEY)
    \/ UseVertex(env) /\ (~Truthy(env.VERTEX_AI_PROJECT_ID) \/ ~Truthy(env.VERTEX_AI_LOCATION))

\* agent.py lines 29-39: the attributes the class VideoGenerationAgent defines
ClassAttributes ==
    {"SUPPORTED_INPUT_CONTENT_TYPES", "SUPPORTED_OUTPUT_CONTENT_TYPES", "VEO_MODEL_NAME",
     "VEO_POLLING_INTERVAL_SECONDS", "VEO_SIMULATED_TOTAL_GENERATION_TIME_SECONDS",
     "VEO_DEFAULT_PERSON_GENERATION", "VEO_DEFAULT_ASPECT_RATIO",
     "GCS_BUCKET_NAME_ENV_VAR", "SIGNED_URL_EXPIRATION_SECONDS",
     "SIGNER_SERVICE_ACCOUNT_EMAIL_ENV_VAR"}

\* main.py lines 66-67: the attributes of the class the agent card reads
CardAttributes == {"SUPPORTED_CONTENT_TYPES", "SUPPORTED_OUTPUT_CONTENT_TYPES"}

\* main.py lines 60-70: AgentCard(...) is built without AttributeError
CardBuilt == CardAttributes \subseteq ClassAttributes

MainInit ==
    /\ InitFor({})
    /\ environ \in Environs
    /\ main_pc = "called"
    /\ exit_status = <<>>

\* main.py lines 35-41, and 81-83 when a ConfigError is raised
MainCheck ==
    /\ main_pc = "called"
    /\ IF ConfigErrorRaised(environ)
       THEN main_pc' = "exited" /\ exit_status' = <<1>>
       ELSE main_pc' = "configured" /\ UNCHANGED exit_status
    /\ UNCHANGED <<environ, agent_vars>>

\* main.py lines 48-80, and 84-86 when an exception is raised
MainServe ==
    /\ main_pc = "configured"
    /\ IF CardBuilt
       THEN main_pc' = "uvicorn.run" /\ UNCHANGED exit_status
       ELSE main_pc' = "exited" /\ exit_status' = <<1>>
    /\ UNCHANGED <<environ, agent_vars>>

MainNext == MainCheck \/ MainServe

MainSpec == MainInit /\ [][MainNext]_vars

\* main() has run to its end or to the start of the server
MainDone == main_pc \in {"exited", "uvicorn.run"}

\* the required configuration is present
ConfigValid(env) ==
    IF UseVertex(env)
    THEN Truthy(env.VERTEX_AI_PROJECT_ID) /\ Truthy(env.VERTEX_AI_LOCATION)
    ELSE Truthy(env.GOOGLE_API_KEY)

\* C29: once main() is done, it has exited with status 1 without starting
\* the server when the required configuration is missing, and it has
\* reached uvicorn.run, without exiting, when the configuration is valid.
C29_MainServesWhenConfigured ==
    MainDone =>
        IF ConfigValid(environ)
        THEN main_pc = "uvicorn.run" /\ exit_status = <<>>
        ELSE main_pc = "exited" /\ exit_status = <<1>>

\* The part of C29 the code keeps: with the required configuration missing
\* main() exits with status 1 at the configuration checks and never reaches
\* uvicorn.run.
C29_MissingConfigExits ==
    /\ (MainDone /\ ~ConfigValid(environ)) => (main_pc = "exited" /\ exit_status = <<1>>)
    /\ ~ConfigValid(environ) => main_pc \in {"called", "exited"}
    /\ main_pc = "exited" <=> exit_status = <<1>>

\* What the code does with a valid configuration: it exits with status 1 too.
C29_NeverServes == main_pc # "uvicorn.run"

C29_Witness ==
    /\ main_pc = "exited"
    /\ exit_status = <<1>>
    /\ UseVertex(environ)
    /\ environ.VERTEX_AI_LOCATION = ""

====
